---------------------------- MODULE Spec2Model ----------------------------
(***************************************************************************)
(* Model of the URL shortener's storage layer (short.db.DynamoTable) as    *)
(* exercised by tests/test_db.py, and of the store primitives used by      *)
(* script/migrate_to_table_without_long_key.py.                            *)
(*                                                                         *)
(* Strings are sequences of characters.  A long URL is a sequence whose    *)
(* first element stands for the whole non-blank body of the URL and whose  *)
(* remaining elements are single characters.  A short is a sequence of     *)
(* single characters.                                                      *)
(***************************************************************************)
EXTENDS Integers, Sequences, FiniteSets, TLC

(***************************************************************************)
(* Bounds of the model.                                                    *)
(***************************************************************************)
NumProcs == 2        \* concurrent callers of save_long_url
MaxCalls == 3        \* calls (saves and lookups) started in one behaviour
NumUrls == 3         \* distinct URL bodies offered to save_long_url
MaxTrailing == 1     \* trailing newlines appended to a URL body
PoolSize == 3        \* distinct strings the real random source can yield
RetryCeiling == 1    \* rejected inserts tolerated by one save_long_url call
MaxItems == 3        \* items the scan of the intermediate table yields

(***************************************************************************)
(* Program constants.                                                      *)
(***************************************************************************)
KeyLen == 4          \* random_string(4): length of a short
MockCountMax == 2    \* MockLimit("m0ck", 2, db.random_string)

Procs == 1..NumProcs

Alphabet ==
    {"a","b","c","d","e","f","g","h","i","j","k","l","m","n","o","p","q","r",
     "s","t","u","v","w","x","y","z","A","B","C","D","E","F","G","H","I","J",
     "K","L","M","N","O","P","Q","R","S","T","U","V","W","X","Y","Z","0","1",
     "2","3","4","5","6","7","8","9"}

Whitespace == {"\n", " ", "\t", "\r"}

mockreturn == <<"m", "0", "c", "k">>

UrlBodies ==
    <<"http://example.com", "http://otherexample.com", "http://example1.com",
      "http://example2.com">>

Pool ==
    << <<"m", "0", "c", "k">>, <<"z", "z", "z", "z">>,
       <<"a", "B", "1", "2">>, <<"Q", "r", "s", "7">> >>

NoShort == <<>>
NotFound == "not_found"

(***************************************************************************)
(* Inputs: a URL body followed by at most MaxTrailing newlines.            *)
(***************************************************************************)
RECURSIVE Newlines(_)
Newlines(n) == IF n = 0 THEN <<>> ELSE Append(Newlines(n - 1), "\n")

RawUrls == {<<UrlBodies[i]>> \o Newlines(k) : i \in 1..NumUrls, k \in 0..MaxTrailing}

(***************************************************************************)
(* Normalization: strip the trailing blank characters (save step 1).       *)
(***************************************************************************)
\* a normalization that strips nothing
Normalize_nothing(s) == s

RECURSIVE Normalize(_)
Normalize(s) ==
    IF Len(s) > 0 /\ s[Len(s)] \in Whitespace
    THEN Normalize(SubSeq(s, 1, Len(s) - 1))
    ELSE s

(***************************************************************************)
(* State.                                                                  *)
(***************************************************************************)
VARIABLES
    table,          \* the items of the table, each [short, long_url]
    random_string,  \* what db.random_string is bound to
    mock_count,     \* MockLimit.mock_count
    pc,             \* per caller: position in save_long_url
    long_url,       \* per caller: the normalized argument
    short,          \* per caller: the current candidate
    tries,          \* per caller: inserts rejected during the call
    rejected,       \* per caller: candidates rejected during the call
    response,       \* per caller: its last call and what it returned
    started,        \* per caller: Len(hist) when its save_long_url started
    hist,           \* outcomes of the finished save_long_url calls, in order
    calls,          \* number of calls started
    concurrent,     \* TRUE once a save started while another was running
    raced,          \* URLs for which two saves have been running at once
    migration,      \* the migration script: "none", "running", "raised", "done"
    intermediate_items,  \* the script's scan of the intermediate table
    copied          \* items of it the script's loop has written

vars ==
    <<table, random_string, mock_count, pc, long_url, short, tries, rejected,
      response, started, hist, calls, concurrent, raced, migration,
      intermediate_items, copied>>

callVars ==
    <<random_string, mock_count, pc, long_url, short, tries, rejected,
      response, started, hist, calls, concurrent, raced>>

migrationVars == <<migration, intermediate_items, copied>>

Entry(s, u) == [short |-> s, long_url |-> u]

Saved(st, e) == [status |-> st, short |-> e.short, long_url |-> e.long_url]

Response(op, arg, st, e) ==
    [op |-> op, arg |-> arg, status |-> st,
     short |-> e.short, long_url |-> e.long_url, retries |-> 0]

NoEntry == Entry(NoShort, <<>>)

NoResponse == Response("none", <<>>, "none", NoEntry)

(***************************************************************************)
(* The store.  An item's primary key is its short, or the pair of its      *)
(* short and long_url on a table created with a range key.                 *)
(***************************************************************************)
\* the key schema with long_url as the sort key, whatever the table
PrimaryKey_with_sort_key(item, with_range_key) == <<item.short, item.long_url>>

PrimaryKey(item, with_range_key) ==
    IF with_range_key THEN <<item.short, item.long_url>> ELSE <<item.short>>

\* a put_item without the ConditionExpression: it replaces the stored item
put_item_unconditional(tbl, item, with_range_key) ==
    LET existing ==
            {e \in tbl :
                PrimaryKey(e, with_range_key) = PrimaryKey(item, with_range_key)}
    IN  [ok |-> TRUE, table |-> (tbl \ existing) \cup {item}]

\* a put_item whose failed condition is swallowed and reported as success
put_item_swallowing(tbl, item, with_range_key) ==
    LET existing ==
            {e \in tbl :
                PrimaryKey(e, with_range_key) = PrimaryKey(item, with_range_key)}
    IN  [ok |-> TRUE, table |-> IF existing # {} THEN tbl ELSE tbl \cup {item}]

\* table.put_item(Item=item, ConditionExpression=Attr("short").not_exists()):
\* the condition is evaluated on the item stored under the same primary key.
put_item(tbl, item, with_range_key) ==
    LET existing ==
            {e \in tbl :
                PrimaryKey(e, with_range_key) = PrimaryKey(item, with_range_key)}
    IN  IF existing # {}
        THEN [ok |-> FALSE, table |-> tbl]
        ELSE [ok |-> TRUE, table |-> tbl \cup {item}]

\* a scan that yields no item
scan_nothing(tbl) == {}

\* table.scan()["Items"]
scan(tbl) == tbl

\* the engine's table has the single-attribute key schema
conditional_insert(tbl, item) == put_item(tbl, item, FALSE)

find_by_key(tbl, s) == {e \in tbl : PrimaryKey(e, FALSE) = <<s>>}

find_by_secondary(tbl, u) == {e \in scan(tbl) : e.long_url = u}

(***************************************************************************)
(* The lookups: the set of values a call can return on table tbl.          *)
(***************************************************************************)
\* a lookup that indexes the first item of an empty answer
get_long_from_short_first_item(tbl, s) ==
    IF find_by_key(tbl, s) = {} THEN {<<"IndexError">>}
    ELSE {e.long_url : e \in find_by_key(tbl, s)}

get_long_from_short(tbl, s) ==
    IF find_by_key(tbl, s) = {} THEN {NotFound}
    ELSE {e.long_url : e \in find_by_key(tbl, s)}

get_short_of_long(tbl, r) ==
    IF find_by_secondary(tbl, Normalize(r)) = {} THEN {NotFound}
    ELSE {e.short : e \in find_by_secondary(tbl, Normalize(r))}

(***************************************************************************)
(* The generator.  Each operator gives the set of possible pairs of a      *)
(* returned string and the new mock_count.                                 *)
(***************************************************************************)
real_random_string(length) ==
    {Pool[i] : i \in {j \in 1..PoolSize : Len(Pool[j]) = length}}

\* a generator whose strings are one character short
fallback_func_short(count) ==
    {[ret |-> SubSeq(r, 1, KeyLen - 1), count |-> count] :
        r \in real_random_string(KeyLen)}

fallback_func(count) ==
    {[ret |-> r, count |-> count] : r \in real_random_string(KeyLen)}

\* the comparison of mocking_func turned around
mocking_func_inverted(count) ==
    IF count > MockCountMax
    THEN {[ret |-> mockreturn, count |-> count + 1]}
    ELSE fallback_func(count)

mocking_func(count) ==
    IF count < MockCountMax
    THEN {[ret |-> mockreturn, count |-> count + 1]}
    ELSE fallback_func(count)

\* the fixture leaving the real generator in place
mock_random_string_unpatched(count) == fallback_func(count)

mock_random_string(count) == {[ret |-> mockreturn, count |-> count]}

Generated(count) ==
    CASE random_string = "mocking_func" -> mocking_func(count)
      [] random_string = "mockreturn" -> mock_random_string(count)
      [] OTHER -> fallback_func(count)

(***************************************************************************)
(* Init: the fixture has created an empty table and the test has bound     *)
(* db.random_string; no call is running.                                   *)
(***************************************************************************)
NoCalls ==
    /\ mock_count = 0
    /\ pc = [p \in Procs |-> "Idle"]
    /\ long_url = [p \in Procs |-> <<>>]
    /\ short = [p \in Procs |-> NoShort]
    /\ tries = [p \in Procs |-> 0]
    /\ rejected = [p \in Procs |-> {}]
    /\ response = [p \in Procs |-> NoResponse]
    /\ started = [p \in Procs |-> 0]
    /\ hist = <<>>
    /\ calls = 0
    /\ concurrent = FALSE
    /\ raced = {}

Init ==
    /\ table = {}
    /\ random_string \in {"real", "mockreturn", "mocking_func"}
    /\ migration = "none"
    /\ intermediate_items = <<>>
    /\ copied = 0
    /\ NoCalls

Running(p) == pc[p] \in {"Lookup", "Insert"}

\* The call ends: its outcome goes to the caller, its locals are gone.
Finish(p, st, e) ==
    /\ pc' = [pc EXCEPT ![p] = IF st = "Return" THEN "Return" ELSE "Raised"]
    /\ response' = [response EXCEPT ![p].status = st, ![p].short = e.short,
                                    ![p].long_url = e.long_url,
                                    ![p].retries = tries[p]]
    /\ hist' = Append(hist, Saved(st, e))
    /\ long_url' = [long_url EXCEPT ![p] = <<>>]
    /\ short' = [short EXCEPT ![p] = NoShort]
    /\ tries' = [tries EXCEPT ![p] = 0]
    /\ rejected' = [rejected EXCEPT ![p] = {}]
    /\ UNCHANGED started

(***************************************************************************)
(* save_long_url, step 1: the call starts and normalizes its argument.     *)
(***************************************************************************)
Call(p, r) ==
    /\ ~Running(p)
    /\ calls < MaxCalls
    /\ calls' = calls + 1
    /\ pc' = [pc EXCEPT ![p] = "Lookup"]
    /\ long_url' = [long_url EXCEPT ![p] = Normalize(r)]
    /\ short' = [short EXCEPT ![p] = NoShort]
    /\ tries' = [tries EXCEPT ![p] = 0]
    /\ rejected' = [rejected EXCEPT ![p] = {}]
    /\ response' =
          [response EXCEPT ![p] = Response("save_long_url", r, "none", NoEntry)]
    /\ started' = [started EXCEPT ![p] = Len(hist)]
    /\ concurrent' = (concurrent \/ \E q \in Procs \ {p} : Running(q))
    /\ raced' =
          IF \E q \in Procs \ {p} : Running(q) /\ long_url[q] = Normalize(r)
          THEN raced \cup {Normalize(r)}
          ELSE raced
    /\ UNCHANGED <<table, random_string, mock_count, hist, migrationVars>>

(***************************************************************************)
(* save_long_url, step 3a: a candidate from db.random_string(4).  The      *)
(* generation is local to the caller and is taken together with the store  *)
(* request whose answer leads to it.                                       *)
(***************************************************************************)
Generate(p) ==
    \E g \in Generated(mock_count) :
        /\ short' = [short EXCEPT ![p] = g.ret]
        /\ mock_count' = g.count
        /\ pc' = [pc EXCEPT ![p] = "Insert"]

(***************************************************************************)
(* save_long_url, step 2: one scan; an existing entry is returned as is.   *)
(***************************************************************************)
Lookup(p) ==
    /\ pc[p] = "Lookup"
    /\ IF find_by_secondary(table, long_url[p]) # {}
       THEN /\ \E e \in find_by_secondary(table, long_url[p]) :
                  Finish(p, "Return", e)
            /\ UNCHANGED mock_count
       ELSE /\ Generate(p)
            /\ UNCHANGED <<response, hist, long_url, tries, rejected>>
    /\ UNCHANGED <<table, random_string, started, calls, concurrent, raced,
                   migrationVars>>

(***************************************************************************)
(* save_long_url, steps 3b-3d: one conditional insert.  A rejected         *)
(* candidate is discarded and a fresh one generated; past the retry        *)
(* ceiling the call fails.                                                 *)
(***************************************************************************)
\* a loop without the retry ceiling
Exhausted_never(n) == FALSE

Exhausted(n) == n > RetryCeiling

Insert(p) ==
    /\ pc[p] = "Insert"
    /\ LET item == Entry(short[p], long_url[p])
           put == conditional_insert(table, item)
       IN  /\ table' = put.table
           /\ IF put.ok
              THEN /\ Finish(p, "Return", item)
                   /\ UNCHANGED mock_count
              ELSE IF Exhausted(tries[p] + 1)
              THEN /\ Finish(p, "KeySpaceExhausted",
                             Entry(NoShort, long_url[p]))
                   /\ UNCHANGED mock_count
              ELSE /\ tries' = [tries EXCEPT ![p] = @ + 1]
                   /\ rejected' = [rejected EXCEPT ![p] = @ \cup {short[p]}]
                   /\ Generate(p)
                   /\ UNCHANGED <<response, hist, long_url>>
    /\ UNCHANGED <<random_string, started, calls, concurrent, raced,
                   migrationVars>>

(***************************************************************************)
(* A store request of save_long_url that cannot reach the store ends the   *)
(* call with StorageUnavailable.                                           *)
(***************************************************************************)
\* a failed insert request taken for a collision and retried
StoreFails_retried(p) ==
    /\ pc[p] = "Insert"
    /\ tries' = [tries EXCEPT ![p] = @ + 1]
    /\ rejected' = [rejected EXCEPT ![p] = @ \cup {short[p]}]
    /\ Generate(p)
    /\ UNCHANGED <<table, random_string, response, hist, long_url, started,
                   calls, concurrent, raced, migrationVars>>

StoreFails(p) ==
    /\ pc[p] \in {"Lookup", "Insert"}
    /\ Finish(p, "StorageUnavailable", Entry(NoShort, long_url[p]))
    /\ UNCHANGED <<table, random_string, mock_count, started, calls,
                   concurrent, raced, migrationVars>>

(***************************************************************************)
(* The lookups, each one store request made by a caller that is not in     *)
(* save_long_url.                                                          *)
(***************************************************************************)
LookupResponse(op, arg, v) ==
    IF v = NotFound THEN Response(op, arg, "NotFound", NoEntry)
    ELSE IF op = "get_short_of_long"
         THEN Response(op, arg, "Return", Entry(v, <<>>))
         ELSE Response(op, arg, "Return", Entry(NoShort, v))

GetShortOfLong(p, r) ==
    /\ ~Running(p)
    /\ calls < MaxCalls
    /\ calls' = calls + 1
    /\ \E v \in get_short_of_long(table, r) :
          response' =
             [response EXCEPT ![p] = LookupResponse("get_short_of_long", r, v)]
    /\ UNCHANGED <<table, random_string, mock_count, pc, long_url, short,
                   tries, rejected, started, hist, concurrent, raced,
                   migrationVars>>

GetLongFromShort(p, s) ==
    /\ ~Running(p)
    /\ calls < MaxCalls
    /\ calls' = calls + 1
    /\ \E v \in get_long_from_short(table, s) :
          response' =
             [response EXCEPT ![p] = LookupResponse("get_long_from_short", s, v)]
    /\ UNCHANGED <<table, random_string, mock_count, pc, long_url, short,
                   tries, rejected, started, hist, concurrent, raced,
                   migrationVars>>

Next ==
    \/ \E p \in Procs, r \in RawUrls : Call(p, r)
    \/ \E p \in Procs : Lookup(p)
    \/ \E p \in Procs : Insert(p)
    \/ \E p \in Procs : StoreFails(p)
    \/ \E p \in Procs, r \in RawUrls : GetShortOfLong(p, r)
    \/ \E p \in Procs, s \in real_random_string(KeyLen) : GetLongFromShort(p, s)

Spec == Init /\ [][Next]_vars

\* Each call is a sequence of synchronous round trips to the store: the
\* request a running call has made is answered.
Fairness == \A p \in Procs : WF_vars(Lookup(p)) /\ WF_vars(Insert(p))

FairSpec == Spec /\ Fairness

(***************************************************************************)
(* The migration script.  Its first half has filled the intermediate       *)
(* table, whose key is the pair (short, long_url); its second half scans   *)
(* that table and puts each item into the recreated table of the original  *)
(* name, whose key is short alone, on the condition that the short is not  *)
(* there yet.  The table connection's put_item raises when the condition   *)
(* fails, and the loop has no handler.                                     *)
(***************************************************************************)
IntermediateItems ==
    {Entry(s, <<UrlBodies[i]>>) :
        s \in real_random_string(KeyLen), i \in 1..NumUrls}

\* What a scan of the intermediate table can yield: no two items with the
\* same (short, long_url).
IntermediateScans ==
    {items \in UNION {[1..n -> IntermediateItems] : n \in 0..MaxItems} :
        \A i, j \in DOMAIN items :
            i # j => PrimaryKey(items[i], TRUE) # PrimaryKey(items[j], TRUE)}

\* The script has scanned the intermediate table and connected to the new,
\* empty table; nothing else uses the store while it runs.
InitMigrate ==
    /\ table = {}
    /\ random_string = "real"
    /\ migration = "running"
    /\ intermediate_items \in IntermediateScans
    /\ copied = 0
    /\ NoCalls

\* One pass of the loop: put_item with Attr("short").not_exists().
CopyItem ==
    /\ migration = "running"
    /\ copied < Len(intermediate_items)
    /\ LET item == intermediate_items[copied + 1]
           put == put_item(table, item, FALSE)
       IN  /\ table' = put.table
           /\ IF put.ok
              THEN /\ copied' = copied + 1
                   /\ UNCHANGED migration
              ELSE /\ migration' = "raised"
                   /\ UNCHANGED copied
    /\ UNCHANGED <<intermediate_items, callVars>>

\* The loop has gone through every item: the script ends.
ScriptEnds ==
    /\ migration = "running"
    /\ copied = Len(intermediate_items)
    /\ migration' = "done"
    /\ UNCHANGED <<table, intermediate_items, copied, callVars>>

NextMigrate == CopyItem \/ ScriptEnds

SpecMigrate == InitMigrate /\ [][NextMigrate]_vars

\* The service is taken into use on the table the script has left.
MigrationEnded == migration \in {"raised", "done"}

DeployScans ==
    {items \in IntermediateScans :
        /\ Len(items) \in 1..2
        /\ items[1] = Entry(mockreturn, <<UrlBodies[1]>>)
        /\ \A i \in DOMAIN items : items[i].short = mockreturn}

InitDeploy ==
    /\ table = {}
    /\ random_string = "real"
    /\ migration = "running"
    /\ intermediate_items \in DeployScans
    /\ copied = 0
    /\ NoCalls

NextDeploy ==
    \/ CopyItem
    \/ ScriptEnds
    \/ MigrationEnded /\ Next

SpecDeploy == InitDeploy /\ [][NextDeploy]_vars

(***************************************************************************)
(* Properties.                                                             *)
(***************************************************************************)
Returned(i) == hist[i].status = "Return"

SaveReturned(p) ==
    response[p].op = "save_long_url" /\ response[p].status = "Return"

\* the save_long_url calls that returned before caller p's call started
Before(p) == {i \in 1..started[p] : Returned(i)}

EndsInNewline(u) == Len(u) > 0 /\ u[Len(u)] = "\n"

\* C1: in every reachable state of the table, however the store requests of
\* the save_long_url calls interleave, no two entries share the same short:
\* no short is associated with two different long_urls.
C1_NoShortTwice ==
    \A e1, e2 \in table : e1.short = e2.short => e1.long_url = e2.long_url

\* two overlapping calls have both written, one after its candidate collided
C1_Witness ==
    /\ concurrent
    /\ Cardinality(table) >= 2
    /\ \E p \in Procs : SaveReturned(p) /\ response[p].retries > 0

\* C2 as stated: a save_long_url(u) called after an earlier save_long_url(u)
\* has returned gives the same short as the earlier call.
C2_Original ==
    \A p \in Procs :
        SaveReturned(p) =>
            \A i \in Before(p) :
                hist[i].long_url = response[p].long_url
                    => hist[i].short = response[p].short

\* C2 amended: a save_long_url(u) called after an earlier save_long_url(u)
\* has returned gives the same short as the earlier call, provided no two
\* save_long_url calls for u have been running at the same time.
C2_SameShortTwice ==
    \A p \in Procs :
        (SaveReturned(p) /\ response[p].long_url \notin raced) =>
            \A i \in Before(p) :
                hist[i].long_url = response[p].long_url
                    => hist[i].short = response[p].short

\* a second save of a URL has returned after the first, other saves between
C2_Witness ==
    \E p \in Procs :
        /\ SaveReturned(p)
        /\ response[p].long_url \notin raced
        /\ Len(hist) >= 3
        /\ \E i \in Before(p) : hist[i].long_url = response[p].long_url

C4_TrailingNewlinesStripped ==
    /\ \A e \in table : ~EndsInNewline(e.long_url)
    /\ \A p \in Procs :
          SaveReturned(p) =>
              /\ ~EndsInNewline(response[p].long_url)
              /\ \E k \in 0..Len(response[p].arg) :
                    response[p].arg = response[p].long_url \o Newlines(k)

\* a save whose input ended in a newline has returned and is stored
C4_Witness ==
    \E p \in Procs :
        /\ SaveReturned(p)
        /\ EndsInNewline(response[p].arg)
        /\ Entry(response[p].short, response[p].long_url) \in table

\* C5: after save_long_url(u) has returned short s, get_long_from_short(s)
\* returns the normalized u in every later state, whatever saves have run.
C5_LongFromReturnedShort ==
    \A i \in 1..Len(hist) :
        Returned(i) =>
            get_long_from_short(table, hist[i].short) = {hist[i].long_url}

\* a caller looked a returned short up after a later save had run too
C5_Witness ==
    \E p \in Procs, i \in 1..Len(hist) :
        /\ Returned(i)
        /\ i < Len(hist)
        /\ response[p].op = "get_long_from_short"
        /\ response[p].arg = hist[i].short
        /\ response[p].long_url = hist[i].long_url

\* C6 as stated: after save_long_url(u) has returned short s,
\* get_short_of_long(u) returns exactly s in every later state.
C6_Original ==
    \A i \in 1..Len(hist) :
        Returned(i) =>
            get_short_of_long(table, hist[i].long_url) = {hist[i].short}

\* C6 amended: after save_long_url(u) has returned short s,
\* get_short_of_long(u) returns in every later state a short stored for u,
\* never not_found, and exactly s provided no two save_long_url calls for u
\* have been running at the same time.
C6_ShortOfSavedLong ==
    \A i \in 1..Len(hist) :
        Returned(i) =>
            LET answers == get_short_of_long(table, hist[i].long_url)
            IN  /\ NotFound \notin answers
                /\ hist[i].short \in answers
                /\ \A s \in answers : Entry(s, hist[i].long_url) \in table
                /\ hist[i].long_url \notin raced => answers = {hist[i].short}

\* a caller asked for the short of a saved URL after a later save had run
C6_Witness ==
    \E p \in Procs, i \in 1..Len(hist) :
        /\ Returned(i)
        /\ i < Len(hist)
        /\ hist[i].long_url \notin raced
        /\ response[p].op = "get_short_of_long"
        /\ Normalize(response[p].arg) = hist[i].long_url
        /\ response[p].short = hist[i].short

\* caller p takes a step of its save_long_url from the insert position
InsertStep(p) ==
    pc[p] = "Insert" /\ (pc'[p] # pc[p] \/ tries'[p] # tries[p])

DistinctSaves ==
    \A i, j \in 1..Len(hist) : i # j => hist[i].long_url # hist[j].long_url

C9_FixedCandidateStored ==
    random_string = "mockreturn" =>
        \A p \in Procs :
            SaveReturned(p) =>
                /\ response[p].short = mockreturn
                /\ response[p].retries = 0
                /\ \E k \in 0..Len(response[p].arg) :
                      response[p].arg = response[p].long_url \o Newlines(k)
                /\ ~EndsInNewline(response[p].long_url)
                /\ table = {Entry(mockreturn, response[p].long_url)}

\* save_long_url("http://example.com") has returned on the empty table
C9_Witness ==
    /\ random_string = "mockreturn"
    /\ Len(hist) = 1
    /\ \E p \in Procs :
          /\ SaveReturned(p)
          /\ response[p].arg = <<"http://example.com">>
          /\ response[p].long_url = <<"http://example.com">>

\* caller p gets the answer of a lookup
LookupStep(p) ==
    /\ response'[p] # response[p]
    /\ response'[p].op \in {"get_short_of_long", "get_long_from_short"}

\* no entry of the table answers the lookup op(arg)
Absent(op, arg) ==
    IF op = "get_long_from_short"
    THEN \A e \in table : e.short # arg
    ELSE \A e \in table : \A k \in 0..Len(arg) : e.long_url \o Newlines(k) # arg

WellFormedShort(s) ==
    /\ Len(s) = KeyLen
    /\ \A i \in 1..Len(s) : s[i] \in Alphabet

\* C11: every short returned by save_long_url and every short stored in the
\* table is a string of exactly 4 characters of the alphanumeric alphabet.
C11_ShortIsFourAlphanumerics ==
    /\ \A e \in table : WellFormedShort(e.short)
    /\ \A i \in 1..Len(hist) : Returned(i) => WellFormedShort(hist[i].short)
    /\ \A p \in Procs : SaveReturned(p) => WellFormedShort(response[p].short)

\* saves have returned a mocked short and a short of the real generator
C11_Witness ==
    /\ random_string = "mocking_func"
    /\ \E i, j \in 1..Len(hist) :
          /\ Returned(i) /\ Returned(j)
          /\ hist[i].short = mockreturn
          /\ hist[j].short # mockreturn
          /\ Entry(hist[j].short, hist[j].long_url) \in table

C14_EntriesPermanent ==
    [][\A e \in table : e \in table']_vars

\* a save was rejected on an entry written earlier, which is still there
\* after a later save has written another entry
C14_Witness ==
    /\ Cardinality(table) >= 2
    /\ \E p \in Procs : response[p].retries > 0
    /\ \E p \in Procs : response[p].op = "get_long_from_short"

\* C15: every save_long_url call reaches a terminal state, Return or a
\* raised error.  The inserts rejected during one call never exceed the
\* retry ceiling: the rejection past the ceiling ends the call with
\* KeySpaceExhausted, and that call has written nothing.
C15_SaveTerminates ==
    /\ [][\A p \in Procs :
             /\ tries'[p] <= RetryCeiling
             /\ (InsertStep(p) /\ response'[p].status = "KeySpaceExhausted") =>
                   /\ tries[p] = RetryCeiling
                   /\ find_by_key(table, short[p]) # {}
                   /\ table' = table
                   /\ pc'[p] = "Raised"]_vars
    /\ \A p \in Procs : Running(p) ~> ~Running(p)

\* a call whose every candidate collided has ended with KeySpaceExhausted
C15_Witness ==
    \E p \in Procs :
        /\ response[p].op = "save_long_url"
        /\ response[p].status = "KeySpaceExhausted"
        /\ response[p].retries = RetryCeiling
        /\ pc[p] = "Raised"
        /\ \A e \in table : e.long_url # response[p].long_url

\* caller p's save_long_url ends with StorageUnavailable in this step
Unavailable(p) ==
    /\ response'[p].status = "StorageUnavailable"
    /\ response[p].status # "StorageUnavailable"

\* C16: a store request of save_long_url that fails with StorageUnavailable
\* ends the call at once, with no write and no new candidate; the call
\* makes no further request; a candidate is replaced and retried only when
\* its insert was rejected because the short exists.
C16_UnavailableNotRetried ==
    /\ [](\A p \in Procs :
             response[p].status = "StorageUnavailable" => pc[p] = "Raised")
    /\ [][\A p \in Procs :
             /\ Unavailable(p) =>
                   /\ Running(p)
                   /\ pc'[p] = "Raised"
                   /\ table' = table
                   /\ mock_count' = mock_count
                   /\ short'[p] = NoShort
             /\ (pc[p] = "Insert" /\ pc'[p] = "Insert" /\ tries'[p] # tries[p])
                   => find_by_key(table, short[p]) # {}]_vars

\* a call has ended with StorageUnavailable at its insert, its candidate
\* not stored
C16_Witness ==
    \E p \in Procs :
        /\ response[p].op = "save_long_url"
        /\ response[p].status = "StorageUnavailable"
        /\ pc[p] = "Raised"
        /\ mock_count > 0
        /\ table = {}

\* caller p's save_long_url gets the answer of its scan in this step
ScanAnswered(p) ==
    /\ pc[p] = "Lookup"
    /\ pc'[p] # "Lookup"
    /\ response'[p].status # "StorageUnavailable"

\* C17: when the lookup of save_long_url finds an entry for the normalized
\* URL, the call returns that entry as stored, writes nothing and generates
\* no key: the table and the generator are unchanged.
C17_FoundReturnedUnchanged ==
    [][\A p \in Procs :
          (ScanAnswered(p) /\ \E e \in table : e.long_url = long_url[p]) =>
              /\ pc'[p] = "Return"
              /\ response'[p].long_url = long_url[p]
              /\ Entry(response'[p].short, response'[p].long_url) \in table
              /\ table' = table
              /\ mock_count' = mock_count
              /\ random_string' = random_string]_vars

\* a save of a stored URL has returned while the mocked generator still
\* had a mocked value to give
C17_Witness ==
    /\ random_string = "mocking_func"
    /\ mock_count = 1
    /\ Cardinality(table) = 1
    /\ \E p \in Procs :
          /\ SaveReturned(p)
          /\ \E i \in Before(p) : hist[i].long_url = response[p].long_url

\* the URL of input r without its trailing newlines
Body(r) == <<r[1]>>

\* two lookups have the same possible answers
SameAnswers(a, b) ==
    /\ (NotFound \in a) <=> (NotFound \in b)
    /\ NotFound \notin a => a = b

CopyStep == migration = "running" /\ (migration' # migration \/ copied' # copied)

ShortExists(tbl, s) == \E e \in tbl : e.short = s

\* C13: a conditional insert whose short is already in the table changes
\* nothing, the existing entry is not overwritten, both in save_long_url
\* and in the copy loop of the migration.
C13_RejectedInsertChangesNothing ==
    [][/\ (/\ CopyStep
            /\ copied < Len(intermediate_items)
            /\ ShortExists(table, intermediate_items[copied + 1].short))
               => table' = table
       /\ \A p \in Procs :
              (InsertStep(p) /\ ShortExists(table, short[p]))
                  => table' = table]_vars

\* the copy loop has met a short it had already written, a save_long_url
\* on the migrated table has had a candidate rejected, and the entry the
\* loop wrote first is still there
C13_Witness ==
    /\ migration = "raised"
    /\ Entry(mockreturn, <<UrlBodies[1]>>) \in table
    /\ \E p \in Procs : SaveReturned(p) /\ response[p].retries > 0

\* C19: the copy loop skips an item whose short is already in the new
\* table and goes on: it processes every scanned item, and at its end every
\* short of the intermediate table has an entry in the new table.
C19_Original ==
    /\ migration # "raised"
    /\ migration = "done" =>
          /\ copied = Len(intermediate_items)
          /\ \A i \in DOMAIN intermediate_items :
                ShortExists(table, intermediate_items[i].short)

\* C20: at every step of the copy loop and at its end the new table holds
\* each short at most once, and every entry in it is the first scanned
\* item with that short.
C20_FirstScannedWins ==
    /\ \A e1, e2 \in table : e1.short = e2.short => e1 = e2
    /\ \A e \in table :
          \E i \in DOMAIN intermediate_items :
              /\ intermediate_items[i] = e
              /\ \A j \in 1..(i - 1) : intermediate_items[j].short # e.short

\* two items were written and the third, whose short is that of the
\* first, was refused
C20_Witness ==
    /\ migration = "raised"
    /\ copied = 2
    /\ Len(intermediate_items) = 3
    /\ intermediate_items[3].short = intermediate_items[1].short
    /\ intermediate_items[3] \notin table
    /\ intermediate_items[1] \in table

=============================================================================
